---- MODULE Spec2Model ----
(***************************************************************************)
(* Model of update-and-sync-ios.py: one run of main().                     *)
(*   precondition check -> generate_pdf_index -> git_commit_and_push ->    *)
(*   notify_ios_app -> create_webhook_config -> exit                       *)
(* The filesystem, the git subprocesses and I/O faults are the             *)
(* environment: every result they can give is an input drawn with \E.      *)
(***************************************************************************)
EXTENDS Integers, Sequences, FiniteSets, TLC

\* ---------------------------------------------------------------- bounds
\* most *.pdf files the environment places in the category directories
MaxDocs == 2
\* largest st_size of a file
MaxSize == 2

\* ------------------------------------------------------- configuration
CATEGORIES ==
  <<"protokoller", "vedtekter", "saeravtale_bntf", "hovedavtalen", "overenskomsten", "other">>

IOS_UPDATE_EVENT_TYPE == "document_update"

\* the file names a category directory may hold, in sorted order
FileNames == <<"a.pdf", "b.pdf">>

\* pdf_file.stem
Stem(filename) ==
  CASE filename = "a.pdf" -> "a"
    [] filename = "b.pdf" -> "b"
    [] OTHER -> filename

\* ------------------------------------------------------------- helpers
RECURSIVE SumSeq(_)
SumSeq(s) == IF s = <<>> THEN 0 ELSE Head(s) + SumSeq(Tail(s))

\* what sorted(category_path.glob('*.pdf')) can return: no file, a.pdf, or a.pdf and b.pdf
SortedGlobs == { SubSeq(FileNames, 1, n) : n \in 0..Len(FileNames) }

\* hashlib.md5(content).hexdigest() of a file of n zero bytes
Md5Hex(n) ==
  CASE n = 0 -> "d41d8cd98f00b204e9800998ecf8427e"
    [] n = 1 -> "93b885adfe0da089cdf634904fd59f71"
    [] n = 2 -> "c4103f122d27677c9db144cae1394a66"
    [] n = 3 -> "693e9af84d3dfcc71e640e005bdc5e2e"
    [] OTHER -> "f1d3ff8443297732862df21dc4e57262"

\* datetime.fromtimestamp(t, tz=utc).isoformat() for 0 <= t < 10
IsoFormat(t) ==
  "1970-01-01T00:00:0" \o
  (CASE t = 0 -> "0" [] t = 1 -> "1" [] t = 2 -> "2" [] t = 3 -> "3" [] t = 4 -> "4"
     [] t = 5 -> "5" [] t = 6 -> "6" [] t = 7 -> "7" [] t = 8 -> "8" [] OTHER -> "9")
  \o "+00:00"

\* the st_mtime values (seconds since the epoch) the files carry
MTimes == {1}

\* what os.stat and open().read() can do to one file
\* fault "stat": os.stat raised; fault "read": open or read raised after a good stat
FileOutcomes ==
  { [fault |-> "none", st_size |-> n, st_mtime |-> t] : n \in 0..MaxSize, t \in MTimes }
  \cup { [fault |-> "stat", st_size |-> 0, st_mtime |-> 0] }
  \cup { [fault |-> "read", st_size |-> n, st_mtime |-> t] : n \in {MaxSize}, t \in MTimes }

\* a get_file_info that keeps the size of a file whose stat worked and whose read failed
get_file_info_partial(o) ==
  IF o.fault = "none"
    THEN [size |-> o.st_size, modified |-> IsoFormat(o.st_mtime), hash |-> Md5Hex(o.st_size)]
    ELSE [size |-> o.st_size, modified |-> "", hash |-> ""]

\* get_file_info: the metadata, or the zeroed record when the try block raised
get_file_info(o) ==
  IF o.fault = "none"
    THEN [size |-> o.st_size, modified |-> IsoFormat(o.st_mtime), hash |-> Md5Hex(o.st_size)]
    ELSE [size |-> 0, modified |-> "", hash |-> ""]

\* the document dict built in the loop body
Document(category, filename, file_info) ==
  [ name |-> Stem(filename), filename |-> filename, category |-> category,
    size |-> file_info.size, modified |-> file_info.modified, hash |-> file_info.hash ]

\* a `total_size = ...` where the code has `total_size += ...`
AddSizeAssign(total, file_info) == file_info.size

\* line 124: total_size += file_info['size']
AddSize(total, file_info) == total + file_info.size

None == << >>

VARIABLES
  pc,               \* position of the run inside main and its callees
  hasGit,           \* os.path.exists('.git')
  index,            \* generate_pdf_index: the index dict being built
  total_documents,  \* generate_pdf_index: local counter
  total_size,       \* generate_pdf_index: local counter
  catIdx,           \* generate_pdf_index: position of the loop over CATEGORIES
  scanned,          \* per visited category: the files its directory listed, and what
                    \* the OS did on each file read so far
  pdf_files,        \* generate_pdf_index: sorted(pdf_files) still to visit
  documents,        \* generate_pdf_index: local list of the current category
  category_size,    \* generate_pdf_index: local counter
  catalogFile,      \* what this run wrote to pdf-index.json, None before
  index_data,       \* main: the returned index, None before
  gitLog,           \* the git subprocesses run so far, with their results
  published,        \* return value of git_commit_and_push: "pending", "True", "False"
  payload,          \* notify_ios_app: the payload dict, None while not built
  notified,         \* return value of notify_ios_app: "pending", "True", "False"
  webhookFile,      \* this run wrote webhook-config.json
  log,              \* the messages log_message has printed
  exitCode          \* process exit status, -1 while running

vars == << pc, hasGit, index, total_documents, total_size, catIdx, scanned, pdf_files,
           documents, category_size, catalogFile, index_data, gitLog, published,
           payload, notified, webhookFile, log, exitCode >>

genVars == << index, total_documents, total_size, catIdx, scanned, pdf_files,
              documents, category_size >>
gitVars == << gitLog, published >>
notifyVars == << payload, notified >>

Running == -1

\* a run that exits 0 on its error paths too
ExitStatusAlwaysZero(failed) == 0

\* the process exit status: sys.exit(1) and an uncaught exception give 1, falling off
\* the end of main gives 0
ExitStatus(failed) == IF failed THEN 1 ELSE 0

\* a check that accepts every directory
InGitRepositoryAlways(exists) == TRUE

\* line 245: os.path.exists('.git')
InGitRepository(exists) == exists

log_message(message) == log' = log \cup {message}

Init ==
  /\ pc = "main"
  /\ hasGit \in BOOLEAN
  /\ index = None
  /\ total_documents = 0
  /\ total_size = 0
  /\ catIdx = 1
  /\ scanned = << >>
  /\ pdf_files = << >>
  /\ documents = << >>
  /\ category_size = 0
  /\ catalogFile = None
  /\ index_data = None
  /\ gitLog = << >>
  /\ published = "pending"
  /\ payload = None
  /\ notified = "pending"
  /\ webhookFile = FALSE
  /\ log = {}
  /\ exitCode = Running

\* ------------------------------------------------------------------ main
\* main, lines 241-247: the precondition check
MainCheckGit ==
  /\ pc = "main"
  /\ IF ~InGitRepository(hasGit)
       THEN /\ log_message("ERROR: Not in a Git repository")
            /\ exitCode' = ExitStatus(TRUE)
            /\ pc' = "exit"
       ELSE /\ log' = log
            /\ exitCode' = exitCode
            /\ pc' = "gen_start"
  /\ UNCHANGED << hasGit, genVars, catalogFile, index_data, gitVars, notifyVars, webhookFile >>

\* ---------------------------------------------------- generate_pdf_index
\* lines 76-93: the empty index and the zeroed totals
GenStart ==
  /\ pc = "gen_start"
  /\ index' = [ version |-> "2.0",
                documents |-> << >>,
                statistics |-> [ totalDocuments |-> 0, totalSize |-> 0,
                                 categoryCounts |-> << >> ] ]
  /\ total_documents' = 0
  /\ total_size' = 0
  /\ catIdx' = 1
  /\ log_message("Generating PDF index")
  /\ pc' = "gen_category"
  /\ UNCHANGED << hasGit, scanned, pdf_files, documents, category_size, catalogFile,
                  index_data, gitVars, notifyVars, webhookFile, exitCode >>

\* lines 95-104: enter one category; the directory may be missing
GenCategory ==
  /\ pc = "gen_category"
  /\ catIdx <= Len(CATEGORIES)
  /\ documents' = << >>
  /\ category_size' = 0
  /\ \E isDir \in BOOLEAN :
       IF isDir
         THEN /\ \E g \in SortedGlobs :
                   /\ total_documents + Len(g) <= MaxDocs
                   /\ pdf_files' = g
              /\ log_message("Processing category")
         ELSE /\ pdf_files' = << >>
              /\ log' = log
  /\ scanned' = Append(scanned, [files |-> pdf_files', outcomes |-> << >>])
  /\ pc' = "gen_file"
  /\ UNCHANGED << hasGit, index, total_documents, total_size, catIdx, catalogFile,
                  index_data, gitVars, notifyVars, webhookFile, exitCode >>

\* lines 104-124: one iteration of the loop over sorted(pdf_files)
GenFile ==
  /\ pc = "gen_file"
  /\ pdf_files # << >>
  /\ \E o \in FileOutcomes :
       LET pdf_file == Head(pdf_files)
           file_info == get_file_info(o)
           document == Document(CATEGORIES[catIdx], pdf_file, file_info)
       IN /\ documents' = Append(documents, document)
          /\ category_size' = category_size + file_info.size
          /\ total_documents' = total_documents + 1
          /\ total_size' = AddSize(total_size, file_info)
          /\ scanned' = [scanned EXCEPT ![catIdx].outcomes = Append(@, o)]
          /\ IF o.fault # "none"
               THEN log_message("ERROR: Error getting file info")
               ELSE log' = log
  /\ pdf_files' = Tail(pdf_files)
  /\ UNCHANGED << pc, hasGit, index, catIdx, catalogFile, index_data, gitVars,
                  notifyVars, webhookFile, exitCode >>

\* lines 126-129: close the category: store its list and its count
GenCategoryEnd ==
  /\ pc = "gen_file"
  /\ pdf_files = << >>
  /\ LET category == CATEGORIES[catIdx]
     IN index' = [index EXCEPT
          !.documents = @ @@ (category :> documents),
          !.statistics.categoryCounts = @ @@ (category :> Len(documents))]
  /\ catIdx' = catIdx + 1
  /\ pc' = IF catIdx = Len(CATEGORIES) THEN "gen_write" ELSE "gen_category"
  /\ UNCHANGED << hasGit, total_documents, total_size, scanned, pdf_files, documents,
                  category_size, catalogFile, index_data, gitVars, notifyVars,
                  webhookFile, log, exitCode >>

\* lines 131-139: totals, the index file, return; main lines 250-254 when it raises
GenWrite ==
  /\ pc = "gen_write"
  /\ index' = [index EXCEPT !.statistics.totalDocuments = total_documents,
                            !.statistics.totalSize = total_size]
  /\ \E writeOk \in BOOLEAN :
       IF writeOk
         THEN /\ catalogFile' = index'
              /\ index_data' = index'
              /\ log_message("PDF index generated")
              /\ exitCode' = exitCode
              /\ pc' = "git_add"
         ELSE /\ catalogFile' = catalogFile
              /\ index_data' = index_data
              /\ log_message("ERROR: Failed to generate PDF index")
              /\ exitCode' = ExitStatus(TRUE)
              /\ pc' = "exit"
  /\ UNCHANGED << hasGit, total_documents, total_size, catIdx, scanned, pdf_files,
                  documents, category_size, gitVars, notifyVars, webhookFile >>

\* --------------------------------------------------- git_commit_and_push
\* the whitespace str.strip() removes
Whitespace == {" ", "\n", "\t", "\r"}

RECURSIVE LStrip(_)
LStrip(s) == IF s # << >> /\ Head(s) \in Whitespace THEN LStrip(Tail(s)) ELSE s

RECURSIVE RStrip(_)
RStrip(s) ==
  IF s # << >> /\ s[Len(s)] \in Whitespace THEN RStrip(SubSeq(s, 1, Len(s) - 1)) ELSE s

\* str.strip() on a string held as a sequence of characters
Strip(s) == RStrip(LStrip(s))

\* captured stdout of `git status --porcelain`: empty, blank, or one modified path
StatusOutputs == { << >>, << "\n" >>, << " ", "M", " ", "f", "\n" >> }

\* subprocess.run of one git command: it raises (OSError), or completes with an exit
\* status and its captured stdout
RunResults(stdouts) ==
  { [raised |-> FALSE, returncode |-> rc, stdout |-> out] : rc \in {0, 1}, out \in stdouts }
  \cup { [raised |-> TRUE, returncode |-> 0, stdout |-> << >>] }

\* the record of one invocation kept in gitLog
Invocation(op, result) ==
  [op |-> op, raised |-> result.raised, returncode |-> result.returncode,
   stdout |-> result.stdout]

\* a check that looks at no exit status
StepFailedOnlyRaise(result) == result.raised

\* lines 148, 160, 166: `if result.returncode != 0: raise`; a raising subprocess.run
\* reaches the same handler
StepFailed(result) == result.raised \/ result.returncode # 0

\* a status check that never finds the tree unchanged
NothingToCommitNever(result) == FALSE

\* line 153: `if not result.stdout.strip()`; the exit status is not looked at
NothingToCommit(result) == Strip(result.stdout) = << >>

\* a `return True` where the code has `return False`
NoChangesReturnTrue == "True"

\* line 155: the return value when there is nothing to commit
NoChangesReturn == "False"

\* lines 172-174: the except clause, entered with `logged` already printed
GitFailed(logged) ==
  /\ log' = logged \cup {"ERROR: Git operations failed"}
  /\ published' = "False"
  /\ pc' = "main_published"

\* lines 144-149: git add .
GitAdd ==
  /\ pc = "git_add"
  /\ \E result \in RunResults({<< >>}) :
       /\ gitLog' = Append(gitLog, Invocation("add", result))
       /\ IF StepFailed(result)
            THEN GitFailed(log \cup {"Committing changes to Git"})
            ELSE /\ log_message("Committing changes to Git")
                 /\ published' = published
                 /\ pc' = "git_status"
  /\ UNCHANGED << hasGit, genVars, catalogFile, index_data, notifyVars, webhookFile,
                  exitCode >>

\* lines 151-155: git status --porcelain
GitStatus ==
  /\ pc = "git_status"
  /\ \E result \in RunResults(StatusOutputs) :
       /\ gitLog' = Append(gitLog, Invocation("status", result))
       /\ IF result.raised
            THEN GitFailed(log)
            ELSE IF NothingToCommit(result)
              THEN /\ log_message("No changes to commit")
                   /\ published' = NoChangesReturn
                   /\ pc' = "main_published"
              ELSE /\ log' = log
                   /\ published' = published
                   /\ pc' = "git_commit"
  /\ UNCHANGED << hasGit, genVars, catalogFile, index_data, notifyVars, webhookFile,
                  exitCode >>

\* lines 157-161: git commit -m <message>
GitCommit ==
  /\ pc = "git_commit"
  /\ \E result \in RunResults({<< >>}) :
       /\ gitLog' = Append(gitLog, Invocation("commit", result))
       /\ IF StepFailed(result)
            THEN GitFailed(log)
            ELSE /\ log_message("Pushing to GitHub")
                 /\ published' = published
                 /\ pc' = "git_push"
  /\ UNCHANGED << hasGit, genVars, catalogFile, index_data, notifyVars, webhookFile,
                  exitCode >>

\* lines 163-170: git push origin main
GitPush ==
  /\ pc = "git_push"
  /\ \E result \in RunResults({<< >>}) :
       /\ gitLog' = Append(gitLog, Invocation("push", result))
       /\ IF StepFailed(result)
            THEN GitFailed(log)
            ELSE /\ log_message("Successfully pushed changes to GitHub")
                 /\ published' = "True"
                 /\ pc' = "main_published"
  /\ UNCHANGED << hasGit, genVars, catalogFile, index_data, notifyVars, webhookFile,
                  exitCode >>

\* a branch that takes every return value for success
PublishSucceededAlways(ret) == TRUE

\* main, line 257: `if git_commit_and_push():`
PublishSucceeded(ret) == ret = "True"

\* main, lines 257 and 270-272: the branch on git_commit_and_push()
MainPublished ==
  /\ pc = "main_published"
  /\ IF PublishSucceeded(published)
       THEN /\ pc' = "notify"
            /\ log' = log
            /\ exitCode' = exitCode
       ELSE /\ log_message("ERROR: Auto-update process failed")
            /\ exitCode' = ExitStatus(TRUE)
            /\ pc' = "exit"
  /\ UNCHANGED << hasGit, genVars, catalogFile, index_data, gitVars, notifyVars,
                  webhookFile >>

\* -------------------------------------------------------- notify_ios_app
\* lines 182-193: the payload
Payload(index_arg) ==
  [ event_type |-> IOS_UPDATE_EVENT_TYPE,
    client_payload |->
      [ totalDocuments |-> index_arg.statistics.totalDocuments,
        categoryCounts |-> index_arg.statistics.categoryCounts,
        updatedCategories |-> CATEGORIES,
        specialUpdate |-> "saeravtale_bntf_renamed",
        version |-> index_arg.version ] ]

\* where the try block of notify_ios_app can raise: nowhere, while the payload is
\* built, or in a log_message call after it was built
NotifyFaults == {"none", "payload", "log"}

\* a notify_ios_app without its try/except
NotifyPropagatesUncaught(fault) == TRUE

\* lines 207-209: `except Exception` returns False to the caller; nothing propagates
NotifyPropagates(fault) == FALSE

\* lines 176-209 and main line 259 (the return value is dropped)
NotifyIosApp ==
  /\ pc = "notify"
  /\ \E fault \in NotifyFaults :
       /\ payload' = IF fault = "payload" THEN payload ELSE Payload(index_data)
       /\ IF fault = "none"
            THEN /\ log' = log \cup { "Notifying iOS app", "iOS App Notification Payload",
                                      "iOS app notification sent successfully" }
                 /\ notified' = "True"
            ELSE /\ log' = log \cup { "Notifying iOS app", "ERROR: Failed to notify iOS app" }
                 /\ notified' = "False"
       /\ IF fault # "none" /\ NotifyPropagates(fault)
            THEN /\ exitCode' = ExitStatus(TRUE)
                 /\ pc' = "exit"
            ELSE /\ exitCode' = exitCode
                 /\ pc' = "webhook"
  /\ UNCHANGED << hasGit, genVars, catalogFile, index_data, gitVars, webhookFile >>

\* ------------------------------------------------- create_webhook_config
\* lines 211-237 and main line 262; a failing write is an uncaught exception: exit 1
CreateWebhookConfig ==
  /\ pc = "webhook"
  /\ \E writeOk \in BOOLEAN :
       IF writeOk
         THEN /\ webhookFile' = TRUE
              /\ log_message("Webhook configuration created")
              /\ exitCode' = exitCode
              /\ pc' = "main_success"
         ELSE /\ webhookFile' = webhookFile
              /\ log' = log
              /\ exitCode' = ExitStatus(TRUE)
              /\ pc' = "exit"
  /\ UNCHANGED << hasGit, genVars, catalogFile, index_data, gitVars, notifyVars >>

\* main, lines 264-269, then the interpreter exits with status 0
MainSuccess ==
  /\ pc = "main_success"
  /\ log_message("Auto-Update Completed Successfully")
  /\ exitCode' = ExitStatus(FALSE)
  /\ pc' = "exit"
  /\ UNCHANGED << hasGit, genVars, catalogFile, index_data, gitVars, notifyVars,
                  webhookFile >>

Next ==
  \/ MainCheckGit
  \/ GenStart
  \/ GenCategory
  \/ GenFile
  \/ GenCategoryEnd
  \/ GenWrite
  \/ GitAdd
  \/ GitStatus
  \/ GitCommit
  \/ GitPush
  \/ MainPublished
  \/ NotifyIosApp
  \/ CreateWebhookConfig
  \/ MainSuccess

Spec == Init /\ [][Next]_vars

\* ============================================================ properties
CatalogWritten == catalogFile # None

\* gitLog entries of operation op that ran to completion with a non-zero exit status
ExitedNonZero(i, ops) ==
  gitLog[i].op \in ops /\ ~gitLog[i].raised /\ gitLog[i].returncode # 0

ExitedZero(i, op) ==
  gitLog[i].op = op /\ ~gitLog[i].raised /\ gitLog[i].returncode = 0

Invoked(op) == \E i \in DOMAIN gitLog : gitLog[i].op = op

NotifyMessages ==
  { "Notifying iOS app", "iOS App Notification Payload",
    "iOS app notification sent successfully", "ERROR: Failed to notify iOS app" }

GitOrder == << "add", "status", "commit", "push" >>

\* C1: the notifier runs, and a payload is built or logged, only after
\* git_commit_and_push returned True with add, commit and push all exited 0; the
\* publish starts only after the catalog was built and written, so scan/build,
\* publish, notify keep that order.
C1_NotifyOnlyAfterPublish ==
  /\ ( \/ pc \in {"notify", "webhook", "main_success"}
       \/ payload # None
       \/ notified # "pending"
       \/ log \cap NotifyMessages # {} )
     => /\ published = "True"
        /\ Len(gitLog) = 4
        /\ ExitedZero(1, "add") /\ ExitedZero(3, "commit") /\ ExitedZero(4, "push")
  /\ (gitLog # << >> \/ published # "pending" \/ pc \in {"git_add", "git_status"})
     => (CatalogWritten /\ index_data = catalogFile /\ catIdx = Len(CATEGORIES) + 1)

C1_Witness ==
  /\ payload # None
  /\ "iOS App Notification Payload" \in log
  /\ published = "True"
  /\ Len(gitLog) = 4

\* C2: when git add succeeded and git status printed nothing, the publish logs
\* "No changes to commit" and stops: status is the last git operation of the run,
\* neither commit nor push is invoked.
C2_NoChangesNoCommit ==
  \A i \in DOMAIN gitLog :
    (gitLog[i].op = "status" /\ ~gitLog[i].raised /\ gitLog[i].stdout = << >>)
      => /\ ExitedZero(1, "add")
         /\ i = Len(gitLog)
         /\ ~Invoked("commit") /\ ~Invoked("push")
         /\ "No changes to commit" \in log
         /\ pc \in {"main_published", "exit"}

C2_Witness ==
  /\ pc = "exit"
  /\ Len(gitLog) = 2
  /\ gitLog[2].op = "status" /\ gitLog[2].returncode = 0 /\ gitLog[2].stdout = << >>
  /\ ~gitLog[2].raised

\* C3: a non-zero exit status of add, commit or push aborts the publish there: it is
\* the last git operation, every operation ran at most once and in order (no retry,
\* nothing undone), the catalog file written before is still on disk, and the run
\* exits non-zero.
C3_PublishFailureAborts ==
  /\ \A i \in DOMAIN gitLog : i <= Len(GitOrder) /\ gitLog[i].op = GitOrder[i]
  /\ \A i \in DOMAIN gitLog :
       ExitedNonZero(i, {"add", "commit", "push"})
         => /\ i = Len(gitLog)
            /\ published = "False"
            /\ "ERROR: Git operations failed" \in log
            /\ CatalogWritten /\ catalogFile = index_data
            /\ pc \in {"main_published", "exit"}
            /\ exitCode # 0
            /\ (pc = "exit" => exitCode = 1)

C3_Witness ==
  /\ pc = "exit"
  /\ exitCode = 1
  /\ Len(gitLog) = 4
  /\ ExitedNonZero(4, {"push"})
  /\ ExitedZero(3, "commit")
  /\ CatalogWritten

\* C4 (as claimed): a non-zero exit status of git status is a hard error whatever it
\* printed: the publish is reported as an error and neither commit nor push follows.
C4_StatusFailureIsHardError ==
  \A i \in DOMAIN gitLog :
    ExitedNonZero(i, {"status"})
      => /\ i = Len(gitLog)
         /\ ~Invoked("commit") /\ ~Invoked("push")
         /\ "ERROR: Git operations failed" \in log

FullSuccess == hasGit /\ CatalogWritten /\ published = "True" /\ webhookFile

\* C5: the run exits 0 exactly on full success (repository present, catalog written,
\* commit pushed, webhook configuration written), and exits non-zero when the
\* precondition fails, catalog generation throws or the publish fails.
C5_ExitCodes ==
  /\ exitCode \in {Running, 0, 1}
  /\ (pc = "exit") <=> (exitCode # Running)
  /\ pc = "exit" =>
       /\ (exitCode = 0) <=> FullSuccess
       /\ ~hasGit => exitCode # 0
       /\ "ERROR: Failed to generate PDF index" \in log => exitCode # 0
       /\ published = "False" => exitCode # 0

C5_Witness ==
  /\ pc = "exit"
  /\ exitCode = 0
  /\ FullSuccess
  /\ index_data.statistics.totalDocuments = MaxDocs

\* C6: without a .git entry the run fails at entry: nothing is scanned, no catalog
\* file, no git operation, no notification, no webhook configuration, exit status 1.
C6_NoRepositoryNoWork ==
  ~hasGit =>
    /\ pc \in {"main", "exit"}
    /\ index = None /\ scanned = << >> /\ index_data = None
    /\ catalogFile = None
    /\ gitLog = << >> /\ published = "pending"
    /\ payload = None /\ notified = "pending"
    /\ ~webhookFile
    /\ log \subseteq {"ERROR: Not in a Git repository"}
    /\ (pc = "exit" => exitCode = 1)

C6_Witness == ~hasGit /\ pc = "exit" /\ "ERROR: Not in a Git repository" \in log

\* C7: a notifier failure is caught: the step in which notify_ios_app fails hands
\* control to create_webhook_config without setting an exit status, and a run whose
\* notifier failed and whose webhook configuration was written exits 0.
C7_NotifierFailureNonFatal ==
  /\ [][ (pc = "notify" /\ notified' = "False")
           => (pc' = "webhook" /\ exitCode' = Running) ]_vars
  /\ [](notified = "False" => pc \in {"webhook", "main_success", "exit"})
  /\ []((notified = "False" /\ webhookFile /\ pc = "exit") => exitCode = 0)

C7_Witness ==
  /\ notified = "False"
  /\ payload = None
  /\ webhookFile
  /\ pc = "exit"
  /\ exitCode = 0

RECURSIVE SizeSum(_)
SizeSum(docs) == IF docs = << >> THEN 0 ELSE Head(docs).size + SizeSum(Tail(docs))

Range(seq) == { seq[i] : i \in DOMAIN seq }

StatisticsDerivable(catalog) ==
  /\ DOMAIN catalog.documents = Range(CATEGORIES)
  /\ DOMAIN catalog.statistics.categoryCounts = Range(CATEGORIES)
  /\ \A c \in Range(CATEGORIES) :
       catalog.statistics.categoryCounts[c] = Len(catalog.documents[c])
  /\ catalog.statistics.totalDocuments =
       SumSeq([i \in DOMAIN CATEGORIES |-> catalog.statistics.categoryCounts[CATEGORIES[i]]])
  /\ catalog.statistics.totalSize =
       SumSeq([i \in DOMAIN CATEGORIES |-> SizeSum(catalog.documents[CATEGORIES[i]])])

\* C8: in the catalog returned and written, categoryCounts[c] = len(documents[c]) for
\* every category of CATEGORIES, totalDocuments is the sum of the counts and totalSize
\* is the sum of the sizes of all documents.
C8_StatisticsDerivable ==
  /\ CatalogWritten => StatisticsDerivable(catalogFile)
  /\ index_data # None => StatisticsDerivable(index_data)

C8_Witness ==
  /\ CatalogWritten
  /\ index_data = catalogFile
  /\ catalogFile.statistics.totalDocuments = 2
  /\ catalogFile.statistics.totalSize = MaxSize
  /\ \E c \in Range(CATEGORIES) :
       /\ Len(catalogFile.documents[c]) = 2
       /\ catalogFile.documents[c][1].hash = ""
       /\ catalogFile.documents[c][2].size = MaxSize
  /\ \E c \in Range(CATEGORIES) : catalogFile.documents[c] = << >>

\* doc is what the code records for a file on which the OS did o
RecordedAs(doc, filename, o) ==
  /\ doc.filename = filename
  /\ IF o.fault = "none"
       THEN /\ doc.size = o.st_size
            /\ doc.modified = IsoFormat(o.st_mtime)
            /\ doc.hash = Md5Hex(o.st_size)
       ELSE doc.size = 0 /\ doc.modified = "" /\ doc.hash = ""

\* the documents of the i-th category as far as they are built
DocsSoFar(i) == IF i < catIdx THEN index.documents[CATEGORIES[i]] ELSE documents

ScanRecordsEveryFile ==
  /\ \A i \in DOMAIN scanned :
       /\ Len(DocsSoFar(i)) = Len(scanned[i].outcomes)
       /\ \A j \in DOMAIN scanned[i].outcomes :
            RecordedAs(DocsSoFar(i)[j], scanned[i].files[j], scanned[i].outcomes[j])
  /\ index_data # None =>
       /\ Len(scanned) = Len(CATEGORIES)
       /\ \A i \in DOMAIN scanned :
            /\ Len(scanned[i].outcomes) = Len(scanned[i].files)
            /\ index_data.documents[CATEGORIES[i]] = DocsSoFar(i)

\* C9: a file whose metadata read failed stays in its category's list with size 0 and
\* empty modified time and hash; every file the directories listed is recorded, in
\* order, the others with their own metadata; and the loop step neither leaves the
\* scan nor sets an exit status, whatever the read did.
C9_FileFailureDoesNotAbortScan ==
  /\ []ScanRecordsEveryFile
  /\ [][ (pc = "gen_file" /\ pdf_files # << >>)
           => /\ pc' = "gen_file"
              /\ pdf_files' = Tail(pdf_files)
              /\ Len(documents') = Len(documents) + 1
              /\ exitCode' = Running ]_vars

C9_Witness ==
  /\ index_data # None
  /\ \E i \in DOMAIN scanned :
       /\ Len(scanned[i].files) = 2
       /\ scanned[i].outcomes[1].fault = "read"
       /\ scanned[i].outcomes[1].st_size > 0
       /\ scanned[i].outcomes[2].fault = "none"
       /\ index_data.documents[CATEGORIES[i]][1].size = 0
       /\ index_data.documents[CATEGORIES[i]][2].size = MaxSize

\* C10: a publish that found no changes and a publish that failed both return False,
\* and main then builds no notification, writes no webhook configuration and exits
\* non-zero; the webhook configuration exists only after a push that exited 0.
C10_NoChangesTreatedAsFailure ==
  /\ ("No changes to commit" \in log \/ "ERROR: Git operations failed" \in log)
       => /\ published = "False"
          /\ payload = None /\ notified = "pending"
          /\ log \cap NotifyMessages = {}
          /\ ~webhookFile
          /\ exitCode # 0
          /\ (pc = "exit" => exitCode = 1)
  /\ webhookFile
       => /\ published = "True"
          /\ Len(gitLog) = 4 /\ ExitedZero(3, "commit") /\ ExitedZero(4, "push")

C10_Witness ==
  /\ "No changes to commit" \in log
  /\ "ERROR: Auto-update process failed" \in log
  /\ published = "False"
  /\ pc = "exit"
  /\ exitCode = 1

====
